---- MODULE Spec2Model ----
(***************************************************************************)
(* Googol-Server: the user and bar REST handlers.  A request is routed,    *)
(* its path id is loaded into a document, the route's middleware chain     *)
(* runs, and the handler performs its database calls one awaited call at a *)
(* time.  Every awaited database call is one step of the model and may     *)
(* fail.                                                                   *)
(***************************************************************************)
EXTENDS Integers, Sequences, FiniteSets, TLC

\* ---------------------------------------------------------------- bounds
NumUsers == 2
NumBars == 1
NumTeams == 1
MaxRequests == 2

UserIds == 1..NumUsers
BarIds == 1..NumBars
TeamIds == 1..NumTeams
ReqIds == {1, 2}

\* ------------------------------------------------------- program constants
ADD == "add"
REMOVE == "remove"
BAD_REQUEST == 400
Operations == {ADD, REMOVE, "other"}

ERROR_ON_FOLLOW_TEAM == "ERROR_ON_FOLLOW_TEAM"
ERROR_ON_UNFOLLOW_TEAM == "ERROR_ON_UNFOLLOW_TEAM"
ERROR_ON_FOLLOW_USER == "ERROR_ON_FOLLOW_USER"
ERROR_ON_UNFOLLOW_USER == "ERROR_ON_UNFOLLOW_USER"

\* ------------------------------------------------------------------ errors
APIError(message, status, isPublic) ==
  [type |-> "APIError", message |-> message, status |-> status, isPublic |-> isPublic]

NoErr == [type |-> "none", message |-> "", status |-> 0, isPublic |-> FALSE]
\* the rejection of a failed storage call (driver / network error)
StorageError == [type |-> "Error", message |-> "storage", status |-> 500, isPublic |-> FALSE]
\* Model.get(id) on an id that matches no document
NotFound == APIError("NotFound", 404, TRUE)
\* express-validation on a body that does not match the schema
ValidationError == [type |-> "ValidationError", message |-> "validation", status |-> 400, isPublic |-> TRUE]
\* express-jwt on a missing or invalid token; checkUser on a foreign principal
UnauthorizedError == [type |-> "UnauthorizedError", message |-> "unauthorized", status |-> 401, isPublic |-> TRUE]

\* ------------------------------------------------------------------ routes
UserParamRoutes ==
  {"get", "update", "remove", "updateFavTeams", "updateFollowing",
   "updateFollowingBars", "getFollowing"}
UserPlainRoutes == {"list", "create"}
BarParamRoutes == {"bar.get", "bar.remove"}
BarPlainRoutes == {"bar.list", "bar.create"}
Routes == UserParamRoutes \cup UserPlainRoutes \cup BarParamRoutes \cup BarPlainRoutes
MutatingUserRoutes ==
  {"update", "remove", "updateFavTeams", "updateFollowing", "updateFollowingBars"}

\* RouterChain with the ownership check left off the update route
RouterChainNoOwnerCheck(route) ==
  CASE route = "create" -> <<"validate">>
    [] route = "update" -> <<"validate", "jwt">>
    [] route = "remove" -> <<"jwt", "checkUser">>
    [] route = "updateFavTeams" -> <<"validate", "jwt", "checkUser">>
    [] OTHER -> <<>>

\* the middleware arrays of the user router
RouterChain(route) ==
  CASE route = "create" -> <<"validate">>
    [] route = "update" -> <<"validate", "jwt", "checkUser">>
    [] route = "remove" -> <<"jwt", "checkUser">>
    [] route = "updateFavTeams" -> <<"validate", "jwt", "checkUser">>
    [] OTHER -> <<>>

\* routes whose binding is not in the router file: owner-only routes carry
\* validation, token check and ownership check; the bar routes carry no auth
OtherChain(route) ==
  CASE route \in {"updateFollowing", "updateFollowingBars"} -> <<"validate", "jwt", "checkUser">>
    [] route = "bar.create" -> <<"validate">>
    [] OTHER -> <<>>

Chain(route) ==
  IF route \in {"list", "create", "get", "update", "remove", "updateFavTeams"}
  THEN RouterChain(route)
  ELSE OtherChain(route)

\* ------------------------------------------------------------------- state
VARIABLES
  users,    \* the user collection: id -> document
  bars,     \* the bar collection: id -> document
  req,      \* the requests in flight: slot -> request context and position
  db0,      \* history: the collections when the current request was received
  prev,     \* history: the request completed before the current one, if it
            \* was an unfollow that responded with success
  nreq      \* number of requests received so far

vars == <<users, bars, req, db0, prev, nreq>>

NewUser(name) ==
  [status |-> "live", username |-> name, favTeams |-> {}, following |-> {},
   followers |-> {}, followingBars |-> {}]
NoUser ==
  [status |-> "none", username |-> "", favTeams |-> {}, following |-> {},
   followers |-> {}, followingBars |-> {}]
NewBar == [status |-> "live", followers |-> {}]
NoBar == [status |-> "none", followers |-> {}]

IdleReq ==
  [route |-> "none", id |-> 0, principal |-> 0, bodyOk |-> FALSE, op |-> "other",
   target |-> 0, name |-> "", pc |-> "idle", mw |-> 0, passed |-> <<>>,
   failedAt |-> "none", outcome |-> "none", err |-> NoErr,
   barGet |-> "none", barWrite |-> "none", userWrite |-> "none", dbFailed |-> FALSE]

NoPrev == [route |-> "none", id |-> 0, op |-> "other", target |-> 0, outcome |-> "none"]

Summary(q, outcome) ==
  [route |-> q.route, id |-> q.id, op |-> q.op, target |-> q.target, outcome |-> outcome]

\* the collections of a fresh deployment
EmptyDb == [users |-> [u \in UserIds |-> NoUser], bars |-> [b \in BarIds |-> NoBar]]
\* the collections after every user and bar was created and user 1 followed
\* user 2 and bar 1, each relation stored on both sides
SeededDb ==
  [users |-> [u \in UserIds |->
                [NewUser("a") EXCEPT !.following = IF u = 1 THEN {2} ELSE {},
                                     !.followers = IF u = 2 THEN {1} ELSE {},
                                     !.followingBars = IF u = 1 THEN {1} ELSE {}]],
   bars |-> [b \in BarIds |-> [NewBar EXCEPT !.followers = IF b = 1 THEN {1} ELSE {}]]]

Init ==
  /\ \E db \in {EmptyDb, SeededDb} : users = db.users /\ bars = db.bars
  /\ req = [r \in ReqIds |-> IdleReq]
  /\ db0 = [users |-> users, bars |-> bars]
  /\ prev = NoPrev
  /\ nreq = 0

\* ------------------------------------------------- request context helpers
\* res.json(...)
Respond(q) == [q EXCEPT !.pc = "done", !.outcome = "json"]
\* next(e)
Forward(q, e, stage) ==
  [q EXCEPT !.pc = "done", !.outcome = "next", !.err = e, !.failedAt = stage]
\* history: a storage call of this request was rejected by the driver
StorageFailed(q) == [q EXCEPT !.dbFailed = TRUE]
\* next(): hand over to the next middleware of the chain, or to the handler
Pass(q, stage) ==
  LET n == q.mw + 1 IN
  [q EXCEPT !.passed = Append(@, stage),
            !.mw = n,
            !.pc = IF n > Len(Chain(q.route)) THEN "handler" ELSE "mw"]

Stage(q) == IF q.pc = "mw" THEN Chain(q.route)[q.mw] ELSE "none"

HasBody(route) == "validate" \in {Chain(route)[i] : i \in 1..Len(Chain(route))}
HasToken(route) == "jwt" \in {Chain(route)[i] : i \in 1..Len(Chain(route))}

PathIds(route) ==
  IF route \in UserParamRoutes THEN UserIds
  ELSE IF route \in BarParamRoutes THEN BarIds ELSE {0}
BodyOps(route, ok) ==
  IF ~ok THEN {"other"}
  ELSE CASE route = "updateFollowingBars" -> Operations
         [] route \in {"updateFavTeams", "updateFollowing"} -> {ADD, REMOVE}
         [] OTHER -> {"other"}
BodyTargets(route, ok) ==
  IF ~ok THEN {0}
  ELSE CASE route = "updateFavTeams" -> TeamIds
         [] route = "updateFollowing" -> UserIds
         [] route = "updateFollowingBars" -> BarIds
         [] OTHER -> {0}
BodyNames(route, ok) ==
  IF ~ok THEN {""}
  ELSE CASE route = "create" -> {"a"}
         [] route = "update" -> {"", "b"}
         [] OTHER -> {""}

\* the request as the router receives it
NewReq(route, id, principal, ok, op, target, name) ==
  [IdleReq EXCEPT !.route = route, !.id = id, !.principal = principal,
                  !.bodyOk = ok, !.op = op, !.target = target, !.name = name,
                  !.pc = IF route \in UserParamRoutes \cup BarParamRoutes THEN "load"
                         ELSE IF Len(Chain(route)) = 0 THEN "handler" ELSE "mw",
                  !.mw = IF route \in UserParamRoutes \cup BarParamRoutes THEN 0 ELSE 1]

\* the token's principal: none (no valid token), the path user, another user
AnotherUser(id) == (id % NumUsers) + 1

\* a request whose token does not name the path user carries one
\* representative body of each kind (valid, invalid)
Bodies(S, route, id, p) ==
  IF HasToken(route) /\ p # id THEN {CHOOSE x \in S : TRUE} ELSE S

RequestsFor(route, ok, id, p) ==
  {NewReq(route, id, p, ok, op, t, n) :
     op \in Bodies(BodyOps(route, ok), route, id, p),
     t \in Bodies(BodyTargets(route, ok), route, id, p),
     n \in Bodies(BodyNames(route, ok), route, id, p)}

RequestsOn(route, ok) ==
  UNION {UNION {RequestsFor(route, ok, id, p) :
                  p \in (IF HasToken(route) THEN {0, id, AnotherUser(id)} ELSE {0})} :
         id \in PathIds(route)}

Requests(routes) ==
  UNION {UNION {RequestsOn(route, ok) :
                  ok \in (IF HasBody(route) THEN BOOLEAN ELSE {TRUE})} :
         route \in routes}

IsUnfollowDone(q) ==
  /\ q.route \in {"updateFollowing", "updateFollowingBars"}
  /\ q.op # ADD
  /\ q.outcome = "json"

Finished(q) == q.pc \in {"done", "abandoned"}

\* --------------------------------------------------------------- receiving
\* one request at a time: the next request arrives after the previous ended
Receive(r) ==
  /\ r = 1
  /\ req[r].pc = "idle"
  /\ nreq < MaxRequests
  /\ \E q \in Requests(Routes) :
       /\ q.route = "create" => \E u \in UserIds : users[u].status = "none"
       /\ q.route = "bar.create" => \E b \in BarIds : bars[b].status = "none"
       /\ req' = [req EXCEPT ![r] = q]
  /\ db0' = [users |-> users, bars |-> bars]
  /\ nreq' = nreq + 1
  /\ UNCHANGED <<users, bars, prev>>

\* the request has been answered (or abandoned) and its context is dropped
Retire(r) ==
  /\ r = 1
  /\ Finished(req[r])
  /\ req' = [req EXCEPT ![r] = IdleReq]
  /\ prev' = IF IsUnfollowDone(req[r]) THEN Summary(req[r], req[r].outcome) ELSE NoPrev
  /\ db0' = [users |-> users, bars |-> bars]
  /\ UNCHANGED <<users, bars, nreq>>

\* ------------------------------------------------------ param middleware
\* router.param('userId', load)
UserLoad(r) ==
  LET q == req[r] IN
  /\ q.pc = "load" /\ q.route \in UserParamRoutes
  /\ \E ok \in BOOLEAN :
       req' = [req EXCEPT ![r] =
                 IF ~ok THEN Forward(StorageFailed(q), StorageError, "load")
                 ELSE IF users[q.id].status # "live" THEN Forward(q, NotFound, "load")
                 ELSE Pass(q, "load")]
  /\ UNCHANGED <<users, bars, db0, prev, nreq>>

\* router.param('barId', load)
BarLoad(r) ==
  LET q == req[r] IN
  /\ q.pc = "load" /\ q.route \in BarParamRoutes
  /\ \E ok \in BOOLEAN :
       req' = [req EXCEPT ![r] =
                 IF ~ok THEN Forward(StorageFailed(q), StorageError, "load")
                 ELSE IF bars[q.id].status # "live" THEN Forward(q, NotFound, "load")
                 ELSE Pass(q, "load")]
  /\ UNCHANGED <<users, bars, db0, prev, nreq>>

\* ------------------------------------------------------- route middleware
Validate(r) ==
  LET q == req[r] IN
  /\ Stage(q) = "validate"
  /\ req' = [req EXCEPT ![r] =
               IF q.bodyOk THEN Pass(q, "validate")
               ELSE Forward(q, ValidationError, "validate")]
  /\ UNCHANGED <<users, bars, db0, prev, nreq>>

ExpressJwt(r) ==
  LET q == req[r] IN
  /\ Stage(q) = "jwt"
  /\ req' = [req EXCEPT ![r] =
               IF q.principal # 0 THEN Pass(q, "jwt")
               ELSE Forward(q, UnauthorizedError, "jwt")]
  /\ UNCHANGED <<users, bars, db0, prev, nreq>>

CheckUser(r) ==
  LET q == req[r] IN
  /\ Stage(q) = "checkUser"
  /\ req' = [req EXCEPT ![r] =
               IF q.principal = q.id THEN Pass(q, "checkUser")
               ELSE Forward(q, UnauthorizedError, "checkUser")]
  /\ UNCHANGED <<users, bars, db0, prev, nreq>>

\* ------------------------------------------------ model (collection) methods
\* User.get / Bar.get resolve to the document with that id, or reject NotFound
UserFound(us, u) == u \in DOMAIN us /\ us[u].status = "live"
BarFound(bs, b) == b \in DOMAIN bs /\ bs[b].status = "live"

\* bar.addFollower(userId) / bar.removeFollower(userId): set membership
AddFollower(bs, b, u) == [bs EXCEPT ![b].followers = @ \cup {u}]
RemoveFollower(bs, b, u) == [bs EXCEPT ![b].followers = @ \ {u}]
\* userDoc.followBar(barId) / userDoc.unfollowBar(barId)
FollowBar(us, u, b) == [us EXCEPT ![u].followingBars = @ \cup {b}]
UnfollowBar(us, u, b) == [us EXCEPT ![u].followingBars = @ \ {b}]
\* User.addFavTeam(userId, teamId) / User.removeFavTeam(userId, teamId)
AddFavTeam(us, u, t) == [us EXCEPT ![u].favTeams = @ \cup {t}]
RemoveFavTeam(us, u, t) == [us EXCEPT ![u].favTeams = @ \ {t}]
\* User.followUser(user, targetId): rejects a self-follow and a missing target
FollowUserAccepted(us, u, t) == u # t /\ UserFound(us, t)
\* the actor-side and the target-side write of User.followUser / unfollowUser
ActorWrite(op, us, u, t) ==
  IF op = ADD THEN [us EXCEPT ![u].following = @ \cup {t}]
  ELSE [us EXCEPT ![u].following = @ \ {t}]
TargetWrite(op, us, u, t) ==
  IF ~UserFound(us, t) THEN us
  ELSE IF op = ADD THEN [us EXCEPT ![t].followers = @ \cup {u}]
  ELSE [us EXCEPT ![t].followers = @ \ {u}]

FreshUsers == {u \in UserIds : users[u].status = "none"}
FreshBars == {b \in BarIds : bars[b].status = "none"}
Min(S) == CHOOSE x \in S : \A y \in S : x <= y

\* ------------------------------------------------------------ user handlers
\* get: populateTeams(...).then(res.json), with no catch and no next
GetOutcome(q, ok) == IF ok THEN Respond(q) ELSE [q EXCEPT !.pc = "abandoned"]

Get(r) ==
  LET q == req[r] IN
  /\ q.pc = "handler" /\ q.route = "get"
  /\ \E ok \in BOOLEAN : req' = [req EXCEPT ![r] = GetOutcome(q, ok)]
  /\ UNCHANGED <<users, bars, db0, prev, nreq>>

\* list and search ("list"), getFollowing, getFollowers and getFollowingBars
\* ("getFollowing"): one query, then res.json or next(e)
UserQuery(r) ==
  LET q == req[r] IN
  /\ q.pc = "handler" /\ q.route \in {"list", "getFollowing"}
  /\ \E ok \in BOOLEAN :
       req' = [req EXCEPT ![r] =
                 IF ok THEN Respond(q) ELSE Forward(q, StorageError, "handler")]
  /\ UNCHANGED <<users, bars, db0, prev, nreq>>

Create(r) ==
  LET q == req[r] IN
  /\ q.pc = "handler" /\ q.route = "create"
  /\ FreshUsers # {}
  /\ \E ok \in BOOLEAN :
       IF ok
       THEN /\ users' = [users EXCEPT ![Min(FreshUsers)] = NewUser(q.name)]
            /\ req' = [req EXCEPT ![r] = Respond(q)]
       ELSE /\ users' = users
            /\ req' = [req EXCEPT ![r] = Forward(q, StorageError, "handler")]
  /\ UNCHANGED <<bars, db0, prev, nreq>>

Update(r) ==
  LET q == req[r] IN
  /\ q.pc = "handler" /\ q.route = "update"
  /\ \E ok \in BOOLEAN :
       IF ok
       THEN /\ users' = IF q.name # "" THEN [users EXCEPT ![q.id].username = q.name]
                        ELSE users
            /\ req' = [req EXCEPT ![r] = Respond(q)]
       ELSE /\ users' = users
            /\ req' = [req EXCEPT ![r] = Forward(q, StorageError, "handler")]
  /\ UNCHANGED <<bars, db0, prev, nreq>>

Remove(r) ==
  LET q == req[r] IN
  /\ q.pc = "handler" /\ q.route = "remove"
  /\ \E ok \in BOOLEAN :
       IF ok
       THEN /\ users' = [users EXCEPT ![q.id].status = "deleted"]
            /\ req' = [req EXCEPT ![r] = Respond(q)]
       ELSE /\ users' = users
            /\ req' = [req EXCEPT ![r] = Forward(q, StorageError, "handler")]
  /\ UNCHANGED <<bars, db0, prev, nreq>>

\* the catch of updateFavTeams
FavTeamsFailed(q) ==
  Forward(q, APIError(IF q.op = ADD THEN ERROR_ON_FOLLOW_TEAM ELSE ERROR_ON_UNFOLLOW_TEAM,
                      BAD_REQUEST, TRUE), "handler")

UpdateFavTeams(r) ==
  LET q == req[r] IN
  /\ q.pc = "handler" /\ q.route = "updateFavTeams"
  /\ \E ok \in BOOLEAN :
       IF ok
       THEN /\ users' = IF q.op = ADD THEN AddFavTeam(users, q.id, q.target)
                        ELSE RemoveFavTeam(users, q.id, q.target)
            /\ req' = [req EXCEPT ![r] = Respond(q)]
       ELSE /\ users' = users
            /\ req' = [req EXCEPT ![r] = FavTeamsFailed(q)]
  /\ UNCHANGED <<bars, db0, prev, nreq>>

\* FollowingFailed with the catch answering instead of forwarding
FollowingFailedSwallowed(q) == Respond(q)

\* the catch of updateFollowing
FollowingFailed(q) ==
  Forward(q, APIError(IF q.op = ADD THEN ERROR_ON_FOLLOW_USER ELSE ERROR_ON_UNFOLLOW_USER,
                      BAD_REQUEST, TRUE), "handler")

\* updateFollowing, first awaited call: the actor side of follow / unfollow
UpdateFollowing(r) ==
  LET q == req[r] IN
  /\ q.pc = "handler" /\ q.route = "updateFollowing"
  /\ \E ok \in BOOLEAN :
       IF ~ok
       THEN /\ users' = users
            /\ req' = [req EXCEPT ![r] = FollowingFailed(StorageFailed(q))]
       ELSE IF q.op = ADD /\ ~FollowUserAccepted(users, q.id, q.target)
       THEN /\ users' = users
            /\ req' = [req EXCEPT ![r] = FollowingFailed(q)]
       ELSE /\ users' = ActorWrite(q.op, users, q.id, q.target)
            /\ req' = [req EXCEPT ![r] = [q EXCEPT !.pc = "followTarget"]]
  /\ UNCHANGED <<bars, db0, prev, nreq>>

\* second awaited call: the target side
FollowTarget(r) ==
  LET q == req[r] IN
  /\ q.pc = "followTarget"
  /\ \E ok \in BOOLEAN :
       IF ok
       THEN /\ users' = TargetWrite(q.op, users, q.id, q.target)
            /\ req' = [req EXCEPT ![r] = [q EXCEPT !.pc = "followGet"]]
       ELSE /\ users' = users
            /\ req' = [req EXCEPT ![r] = FollowingFailed(StorageFailed(q))]
  /\ UNCHANGED <<bars, db0, prev, nreq>>

\* .then(() => User.get(user._id)).then(user => res.json(user))
FollowGet(r) ==
  LET q == req[r] IN
  /\ q.pc = "followGet"
  /\ \E ok \in BOOLEAN :
       req' = [req EXCEPT ![r] =
                 IF ~ok THEN FollowingFailed(StorageFailed(q))
                 ELSE IF ~UserFound(users, q.id) THEN FollowingFailed(q)
                 ELSE Respond(q)]
  /\ UNCHANGED <<users, bars, db0, prev, nreq>>

\* --------------------------------------------------- updateFollowingBars
\* BarSideWrite / UserSideWrite with _unfollowBar left as a copy of _followBar
BarSideWriteCopied(op, bs, b, u) == AddFollower(bs, b, u)
UserSideWriteCopied(op, us, u, b) == FollowBar(us, u, b)

\* operation === ADD ? _followBar(user, barId) : _unfollowBar(user, barId)
BarSideWrite(op, bs, b, u) ==
  IF op = ADD THEN AddFollower(bs, b, u) ELSE RemoveFollower(bs, b, u)
UserSideWrite(op, us, u, b) ==
  IF op = ADD THEN FollowBar(us, u, b) ELSE UnfollowBar(us, u, b)

\* AfterBarGet going on to the write although no bar was found
AfterBarGetUnchecked(q, ok, found) ==
  IF ~ok THEN Forward([StorageFailed(q) EXCEPT !.barGet = "failed"], StorageError, "handler")
  ELSE [q EXCEPT !.pc = "barWrite", !.barGet = IF found THEN "ok" ELSE "failed"]

\* const bar = await Bar.get(barId), inside try / catch (err) { throw err }
AfterBarGet(q, ok, found) ==
  IF ~ok THEN Forward([StorageFailed(q) EXCEPT !.barGet = "failed"], StorageError, "handler")
  ELSE IF ~found THEN Forward([q EXCEPT !.barGet = "failed"], NotFound, "handler")
  ELSE [q EXCEPT !.pc = "barWrite", !.barGet = "ok"]

\* AfterBarWrite with the bar-side write not awaited: its rejection is lost
AfterBarWriteNotAwaited(q, ok) ==
  [q EXCEPT !.pc = "userWrite", !.barWrite = IF ok THEN "ok" ELSE "failed"]

\* await bar.addFollower(userDoc._id) / await bar.removeFollower(userDoc._id)
AfterBarWrite(q, ok) ==
  IF ok THEN [q EXCEPT !.pc = "userWrite", !.barWrite = "ok"]
  ELSE Forward([StorageFailed(q) EXCEPT !.barWrite = "failed"], StorageError, "handler")

\* return userDoc.followBar(barId) / unfollowBar(barId); await promise
AfterUserWrite(q, ok) ==
  IF ok THEN [q EXCEPT !.pc = "userGet", !.userWrite = "ok"]
  ELSE Forward([StorageFailed(q) EXCEPT !.userWrite = "failed"], StorageError, "handler")

\* const updatedUser = await User.get(user._id); res.json(updatedUser)
AfterUserGet(q, ok, found) ==
  IF ~ok THEN Forward(StorageFailed(q), StorageError, "handler")
  ELSE IF ~found THEN Forward(q, NotFound, "handler")
  ELSE Respond(q)

UpdateFollowingBars(r) ==
  LET q == req[r] IN
  /\ q.pc = "handler" /\ q.route = "updateFollowingBars"
  /\ \E ok \in BOOLEAN :
       req' = [req EXCEPT ![r] = AfterBarGet(q, ok, BarFound(bars, q.target))]
  /\ UNCHANGED <<users, bars, db0, prev, nreq>>

BarWrite(r) ==
  LET q == req[r] IN
  /\ q.pc = "barWrite"
  /\ \E ok \in BOOLEAN :
       /\ bars' = IF ok THEN BarSideWrite(q.op, bars, q.target, q.id) ELSE bars
       /\ req' = [req EXCEPT ![r] = AfterBarWrite(q, ok)]
  /\ UNCHANGED <<users, db0, prev, nreq>>

UserWrite(r) ==
  LET q == req[r] IN
  /\ q.pc = "userWrite"
  /\ \E ok \in BOOLEAN :
       /\ users' = IF ok THEN UserSideWrite(q.op, users, q.id, q.target) ELSE users
       /\ req' = [req EXCEPT ![r] = AfterUserWrite(q, ok)]
  /\ UNCHANGED <<bars, db0, prev, nreq>>

UserGet(r) ==
  LET q == req[r] IN
  /\ q.pc = "userGet"
  /\ \E ok \in BOOLEAN :
       req' = [req EXCEPT ![r] = AfterUserGet(q, ok, UserFound(users, q.id))]
  /\ UNCHANGED <<users, bars, db0, prev, nreq>>

\* ------------------------------------------------------------- bar handlers
BarGet(r) ==
  LET q == req[r] IN
  /\ q.pc = "handler" /\ q.route = "bar.get"
  /\ req' = [req EXCEPT ![r] = Respond(q)]
  /\ UNCHANGED <<users, bars, db0, prev, nreq>>

\* list, search and geoSearch ("bar.list"): one query, then res.json or next(e)
BarQuery(r) ==
  LET q == req[r] IN
  /\ q.pc = "handler" /\ q.route = "bar.list"
  /\ \E ok \in BOOLEAN :
       req' = [req EXCEPT ![r] =
                 IF ok THEN Respond(q) ELSE Forward(q, StorageError, "handler")]
  /\ UNCHANGED <<users, bars, db0, prev, nreq>>

BarCreate(r) ==
  LET q == req[r] IN
  /\ q.pc = "handler" /\ q.route = "bar.create"
  /\ FreshBars # {}
  /\ \E ok \in BOOLEAN :
       IF ok
       THEN /\ bars' = [bars EXCEPT ![Min(FreshBars)] = NewBar]
            /\ req' = [req EXCEPT ![r] = Respond(q)]
       ELSE /\ bars' = bars
            /\ req' = [req EXCEPT ![r] = Forward(q, StorageError, "handler")]
  /\ UNCHANGED <<users, db0, prev, nreq>>

BarRemove(r) ==
  LET q == req[r] IN
  /\ q.pc = "handler" /\ q.route = "bar.remove"
  /\ \E ok \in BOOLEAN :
       IF ok
       THEN /\ bars' = [bars EXCEPT ![q.id].status = "deleted"]
            /\ req' = [req EXCEPT ![r] = Respond(q)]
       ELSE /\ bars' = bars
            /\ req' = [req EXCEPT ![r] = Forward(q, StorageError, "handler")]
  /\ UNCHANGED <<users, db0, prev, nreq>>

\* ------------------------------------------------------------ specification
Next ==
  \E r \in ReqIds :
    \/ Receive(r) \/ Retire(r)
    \/ UserLoad(r) \/ BarLoad(r)
    \/ Validate(r) \/ ExpressJwt(r) \/ CheckUser(r)
    \/ Get(r) \/ UserQuery(r) \/ Create(r) \/ Update(r) \/ Remove(r)
    \/ UpdateFavTeams(r)
    \/ UpdateFollowing(r) \/ FollowTarget(r) \/ FollowGet(r)
    \/ UpdateFollowingBars(r) \/ BarWrite(r) \/ UserWrite(r) \/ UserGet(r)
    \/ BarGet(r) \/ BarQuery(r) \/ BarCreate(r) \/ BarRemove(r)

Spec == Init /\ [][Next]_vars

\* -------------------------------------------- concurrent bar-follow requests
\* two updateFollowingBars requests in flight at once: each resumes at its own
\* awaited calls, in any order relative to the other
ReceiveConc(r) ==
  /\ req[r].pc = "idle"
  /\ \E q \in Requests({"updateFollowingBars"}) : req' = [req EXCEPT ![r] = q]
  /\ nreq' = nreq + 1
  /\ UNCHANGED <<users, bars, db0, prev>>

InitConc ==
  /\ users = SeededDb.users
  /\ bars = SeededDb.bars
  /\ req = [r \in ReqIds |-> IdleReq]
  /\ db0 = SeededDb
  /\ prev = NoPrev
  /\ nreq = 0

NextConc ==
  \E r \in ReqIds :
    \/ ReceiveConc(r)
    \/ UserLoad(r)
    \/ Validate(r) \/ ExpressJwt(r) \/ CheckUser(r)
    \/ UpdateFollowingBars(r) \/ BarWrite(r) \/ UserWrite(r) \/ UserGet(r)

SpecConc == InitConc /\ [][NextConc]_vars

\* ------------------------------------------------------------------ claims
BarFollowReq(q) == q.route = "updateFollowingBars"
InHandler(q) ==
  q.pc \in {"handler", "followTarget", "followGet", "barWrite", "userWrite",
            "userGet", "abandoned"}
ReachedHandler(q) ==
  InHandler(q) \/ (q.pc = "done" /\ q.failedAt \in {"none", "handler"})
NoDeletion ==
  /\ \A u \in UserIds : users[u].status # "deleted"
  /\ \A b \in BarIds : bars[b].status # "deleted"
Unchanged == users = db0.users /\ bars = db0.bars

\* C1: in every reachable state of a sequence of follow-bar / unfollow-bar
\* requests run one at a time with no deletions, the states between the two
\* writes of a request included, a bar in a user's followingBars has that
\* user among its followers.
C1_FollowingBarsImpliesFollower ==
  NoDeletion =>
    \A u \in UserIds : \A b \in users[u].followingBars : u \in bars[b].followers

\* C2: when an updateFollowingBars request has responded with success, then
\* for operation add the bar is in the user's followingBars and the user in
\* the bar's followers, and for any other operation neither reference remains.
C2_FollowBarPostcondition ==
  \A r \in ReqIds :
    LET q == req[r] IN
    (BarFollowReq(q) /\ q.outcome = "json") =>
      IF q.op = ADD
      THEN q.target \in users[q.id].followingBars /\ q.id \in bars[q.target].followers
      ELSE q.target \notin users[q.id].followingBars /\ q.id \notin bars[q.target].followers

\* an unfollow-bar request has responded with success where the relation
\* was stored on both sides when the request arrived
C2_Witness ==
  LET q == req[1] IN
  /\ BarFollowReq(q) /\ q.op = REMOVE /\ q.outcome = "json"
  /\ q.target \in db0.users[q.id].followingBars
  /\ q.id \in db0.bars[q.target].followers

\* C3: a follow-bar / unfollow-bar request sends a success response only if
\* the bar-side and the user-side write both succeeded; when the bar lookup
\* or either write fails the request has ended, forwarded to the error
\* responder, with no success response.
C3_SuccessOnlyIfBothWrites ==
  \A r \in ReqIds :
    LET q == req[r] IN
    BarFollowReq(q) =>
      /\ q.outcome = "json" => (q.barWrite = "ok" /\ q.userWrite = "ok")
      /\ ("failed" \in {q.barGet, q.barWrite, q.userWrite}) =>
           (q.pc = "done" /\ q.outcome = "next" /\ q.err # NoErr)

\* the bar-side write succeeded, the user-side write failed, and the request
\* was forwarded to the error responder
C3_Witness ==
  LET q == req[1] IN
  /\ BarFollowReq(q) /\ q.barWrite = "ok" /\ q.userWrite = "failed"
  /\ q.outcome = "next"

C5_AllFourStagesBeforeHandler ==
  \A r \in ReqIds :
    LET q == req[r] IN
    (q.route \in MutatingUserRoutes /\ ReachedHandler(q)) =>
      q.passed = <<"load", "validate", "jwt", "checkUser">>

\* C5 (amended): a mutating user handler runs only for a request whose
\* authenticated principal is the loaded user; before it the user is loaded,
\* then validation (on every route but DELETE, which declares none), token
\* check and ownership check pass in that order; a failure at any of these
\* stages ends the request with an error and leaves all documents unchanged.
C5_OwnerOnlyMutation ==
  LET q == req[1] IN
  q.route \in MutatingUserRoutes =>
    /\ ReachedHandler(q) =>
         /\ q.principal = q.id
         /\ q.passed = (IF q.route = "remove" THEN <<"load", "jwt", "checkUser">>
                        ELSE <<"load", "validate", "jwt", "checkUser">>)
    /\ ~ReachedHandler(q) => Unchanged
    /\ q.failedAt \in {"load", "validate", "jwt", "checkUser"} =>
         (q.pc = "done" /\ q.outcome = "next" /\ q.err # NoErr)

\* a valid token of another user: the ownership check ended the request
C5_Witness ==
  LET q == req[1] IN
  /\ q.route \in MutatingUserRoutes /\ q.failedAt = "checkUser"
  /\ q.principal # 0 /\ q.principal # q.id /\ q.pc = "done"

\* C6: every request that reaches a handler ends with a JSON response or with
\* its failure forwarded to the error responder; none is left unanswered.
C6_EveryRequestAnswered ==
  \A r \in ReqIds :
    req[r].pc \in {"done", "abandoned"} => req[r].outcome \in {"json", "next"}

\* C7: whenever a follow / unfollow operation of updateFollowing,
\* updateFollowingBars or updateFavTeams fails, the error handed to the
\* responder is an APIError with the operation's fixed message, status 400
\* and the flag set.
C7_FollowFailuresWrapped ==
  \A r \in ReqIds :
    LET q == req[r] IN
    (q.route \in {"updateFollowing", "updateFollowingBars", "updateFavTeams"}
       /\ q.failedAt = "handler") =>
      /\ q.err.type = "APIError"
      /\ q.err.status = BAD_REQUEST
      /\ q.err.isPublic
      /\ q.err.message \notin {StorageError.message, NotFound.message}

\* C8: two consecutive successful unfollow requests for the same pair leave
\* the collections as the first left them; an unfollow of a relation stored on
\* neither side, whose storage calls succeed, responds with success and
\* changes nothing.
RelationAbsent(q) ==
  IF BarFollowReq(q)
  THEN /\ BarFound(db0.bars, q.target)
       /\ q.target \notin db0.users[q.id].followingBars
       /\ q.id \notin db0.bars[q.target].followers
  ELSE /\ q.target \notin db0.users[q.id].following
       /\ q.id \notin db0.users[q.target].followers

C8_UnfollowIdempotent ==
  LET q == req[1] IN
  (q.route \in {"updateFollowing", "updateFollowingBars"} /\ q.op # ADD
     /\ q.bodyOk /\ q.pc = "done") =>
    /\ (q.outcome = "json" /\ prev = Summary(q, "json")) => Unchanged
    /\ (RelationAbsent(q) /\ q.failedAt \in {"none", "handler"} /\ ~q.dbFailed) =>
         (q.outcome = "json" /\ Unchanged)

\* the second of two consecutive successful unfollow-bar requests of user 1
\* for bar 1 has responded, and the first removed a stored relation
C8_Witness ==
  LET q == req[1] IN
  /\ BarFollowReq(q) /\ q.op = REMOVE /\ q.id = 1 /\ q.target = 1
  /\ q.outcome = "json" /\ prev = Summary(q, "json")
  /\ nreq = 2 /\ users[2].following = {} /\ users[2].status = "live"

\* C9: when the path id, or the barId of a follow-bar / unfollow-bar body,
\* names no document, the request ends with NotFound forwarded to the
\* responder, the handler's mutation never runs, and no followingBars and no
\* followers set changes.
MissingPathId(q) ==
  \/ q.route \in UserParamRoutes /\ ~UserFound(db0.users, q.id)
  \/ q.route \in BarParamRoutes /\ ~BarFound(db0.bars, q.id)
MissingBodyBar(q) ==
  BarFollowReq(q) /\ q.bodyOk /\ ~BarFound(db0.bars, q.target)
RelationsUnchanged ==
  /\ \A u \in UserIds : users[u].followingBars = db0.users[u].followingBars
  /\ \A b \in BarIds : bars[b].followers = db0.bars[b].followers

C9_MissingTargetNotFound ==
  LET q == req[1] IN
  /\ (MissingPathId(q) /\ q.pc # "load") =>
       /\ q.pc = "done" /\ q.outcome = "next" /\ q.failedAt = "load"
       /\ q.err = IF q.dbFailed THEN StorageError ELSE NotFound
       /\ Unchanged
  /\ (MissingBodyBar(q) /\ ReachedHandler(q) /\ q.pc # "handler") =>
       /\ q.pc = "done" /\ q.outcome = "next"
       /\ q.err = IF q.dbFailed THEN StorageError ELSE NotFound
       /\ q.barWrite = "none" /\ q.userWrite = "none"
       /\ RelationsUnchanged

\* a follow-bar request of the owner whose body names no bar has ended
C9_Witness ==
  LET q == req[1] IN
  /\ MissingBodyBar(q) /\ q.op = ADD /\ q.failedAt = "handler"
  /\ q.err = NotFound /\ q.pc = "done"

\* C10: two concurrent updateFollowingBars requests on one user and one bar,
\* one add and one remove, all calls succeeding: once both have responded the
\* bar is in the user's followingBars iff the user is in the bar's followers.
C10_ConcurrentSymmetric ==
  LET p == req[1]
      q == req[2] IN
  (/\ BarFollowReq(p) /\ BarFollowReq(q)
   /\ p.outcome = "json" /\ q.outcome = "json"
   /\ p.id = q.id /\ p.target = q.target
   /\ {p.op, q.op} = {ADD, REMOVE}) =>
    (p.target \in users[p.id].followingBars <=> p.id \in bars[p.target].followers)
====
